---------------------------- MODULE Spec2Model ----------------------------
(***************************************************************************)
(* The session manager of lsp-cli: the broker's table of managed LSP       *)
(* clients (manager/manager.py), the life of one managed client with its   *)
(* idle watchdog (manager/client.py) and the broker's HTTP handlers        *)
(* (manager/cli.py), as one state machine on a cooperative event loop,     *)
(* and the CLI process that talks to them (__main__.py, server.py).        *)
(* Every action is one run of a task between two suspension points.        *)
(***************************************************************************)
EXTENDS Integers, Sequences, FiniteSets, TLC

VARIABLES
    now,      \* anyio.current_time(), in whole ticks
    clients,  \* Manager._clients: client id -> slot of the ManagedClient object
    mc,       \* the ManagedClient objects and their run-tasks, by slot
    files,    \* the socket files that exist under RUNTIME_DIR
    sinks,    \* the client ids that have a log sink registered with loguru
    mgr,      \* Manager.run's task group: running, exiting, closed
    cli,      \* the CLI processes inside connect_manager and their first dial
    broker,   \* the broker process each CLI has spawned
    listener, \* the broker bound to MANAGER_UDS_PATH, 0 for none
    proc      \* the CLI process running a command: its position and trace

vars == <<now, clients, mc, files, sinks, mgr, cli, broker, listener, proc>>

(***************************************************************************)
(* Bounds of the model.                                                    *)
(***************************************************************************)
MaxTime == 2        \* the clock stops here
idle_timeout == 1   \* settings.idle_timeout (configurable), in ticks
MaxSlots == 2       \* ManagedClient objects alive at the same time
MaxInflight == 1    \* capability requests of one session awaiting the LSP
HashBits == 2       \* width kept of the 32-bit digest
MaxCli == 2         \* CLI invocations running connect_manager concurrently
MaxRenameId == 2    \* rename ids a preview can return
MaxMembers == 2     \* exceptions held by one ExceptionGroup

Slots == 1..MaxSlots

\* the CLI processes that start at the same time
CLIs == 1..MaxCli

\* Python's None: for a path, and for a target
NoPath == <<>>
NoTarget == [project_path |-> NoPath, client_cls |-> "None"]

(***************************************************************************)
(* The language registry (lsp_client.clients.lang.lang_clients) and the    *)
(* file system the descriptors look at.  A path is a sequence of segment   *)
(* codes; the paths requests are made for:                                 *)
(*   <<1, 11>>, <<1, 12>>  two python files of project <<1>>; the go        *)
(*                         descriptor claims <<1, 12>> as well             *)
(*   <<9, 11>>             a python file of project <<9>>                  *)
(*   <<2, 21>>             a go file of project <<2>>                      *)
(*   <<3, 31>>             a file no descriptor claims                     *)
(***************************************************************************)
lang_clients == <<"python", "go">>

Paths == {<<1, 11>>, <<1, 12>>, <<9, 11>>, <<2, 21>>, <<3, 31>>}

Suffixes(kind) == IF kind = "python" THEN {11, 12} ELSE {12, 21}

ProjectDirs(kind) == IF kind = "python" THEN {<<1>>, <<9>>} ELSE {<<1>>, <<2>>}

\* LanguageConfig.find_project_root: the nearest parent directory of the
\* path that holds a marker of the language, when the language claims the file
find_project_root(kind, path) ==
    LET parents == {SubSeq(path, 1, n) : n \in 1..(Len(path) - 1)}
        roots == {d \in parents : d \in ProjectDirs(kind)}
    IN  IF path[Len(path)] \in Suffixes(kind) /\ roots # {}
        THEN CHOOSE d \in roots : \A e \in roots : Len(e) <= Len(d)
        ELSE NoPath

RECURSIVE first_claiming(_, _)
first_claiming(i, path) ==
    IF i > Len(lang_clients) THEN NoTarget
    ELSE LET root == find_project_root(lang_clients[i], path)
         IN  IF root # NoPath
             THEN [project_path |-> root, client_cls |-> lang_clients[i]]
             ELSE first_claiming(i + 1, path)

\* mutant: the last descriptor of the registry that claims the path wins
find_client_last(path) ==
    LET claiming == {i \in 1..Len(lang_clients) :
                        find_project_root(lang_clients[i], path) # NoPath}
    IN  IF claiming = {} THEN NoTarget
        ELSE LET i == CHOOSE j \in claiming : \A k \in claiming : k <= j
             IN  [project_path |-> find_project_root(lang_clients[i], path),
                  client_cls |-> lang_clients[i]]

find_client(path) == first_claiming(1, path)

(***************************************************************************)
(* Client ids and socket paths.                                            *)
(***************************************************************************)
HashSpace == 2 ^ HashBits

RECURSIVE digest(_, _)
digest(h, s) ==
    IF s = <<>> THEN h ELSE digest((h * 31 + Head(s)) % HashSpace, Tail(s))

xxh32_hexdigest(s) == digest(0, s)

get_client_id(target) ==
    <<target.client_cls, xxh32_hexdigest(target.project_path), "default">>

\* mutant: the socket path does not depend on the id
uds_path_of_fixed(id) == <<"RUNTIME_DIR", "client", ".sock">>

uds_path_of(id) == <<"RUNTIME_DIR", id, ".sock">>

(***************************************************************************)
(* ManagedClient objects.  pc is the position of the object's run-task:    *)
(*   free      no object in this slot                                      *)
(*   spawned   _run_client scheduled, run() not yet past its first await   *)
(*   handshake inside the LSP client's __aenter__                          *)
(*   startup   in _serve, uvicorn starting, socket not yet bound           *)
(*   serving   uvicorn bound and serving requests                          *)
(*   join      serve() left, the task group waits for the watchdog         *)
(*   teardown  leaving the LSP client's context                            *)
(*   finally   in run()'s finally, unlinking the socket                    *)
(*   unlinked  socket unlinked, rest of the finally blocks still to run    *)
(* wd is the position of the _timeout_loop task: none, scheduled,          *)
(* sleeping, done.                                                         *)
(***************************************************************************)
FreeClient ==
    [target |-> NoTarget, pc |-> "free", wd |-> "none", until |-> 0,
     _deadline |-> 0, _should_exit |-> FALSE, _server |-> "unset",
     _server_scope |-> "unset", _timeout_scope |-> "unset",
     inflight |-> 0, exc |-> FALSE]

\* ManagedClient(target) and __attrs_post_init__
ManagedClient(target) ==
    [FreeClient EXCEPT !.target = target, !.pc = "spawned",
                       !._deadline = now + idle_timeout]

id_of(m) == get_client_id(m.target)

uds_path(m) == uds_path_of(id_of(m))

Max(a, b) == IF a >= b THEN a ELSE b

\* mutant: the difference is reported as it is
info_unclamped(m) ==
    [project_path |-> m.target.project_path,
     language |-> m.target.client_cls,
     remaining_time |-> m._deadline - now]

info(m) ==
    [project_path |-> m.target.project_path,
     language |-> m.target.client_cls,
     remaining_time |-> Max(0, m._deadline - now)]

\* CancelScope.cancel() on the scope the watchdog sleeps in: the sleep ends
cancel_timeout_scope(m) ==
    IF m._timeout_scope = "open"
    THEN [m EXCEPT !._timeout_scope = "cancelled", !.until = 0]
    ELSE m

cancel_server_scope(m) ==
    IF m._server_scope = "open" THEN [m EXCEPT !._server_scope = "cancelled"]
    ELSE m

\* mutant: the reset cancels the server scope in place of the timeout scope
_reset_timeout_server_scope(m) ==
    LET m1 == [m EXCEPT !._deadline = now + idle_timeout]
    IN  IF m._server_scope = "unset"
        THEN [m |-> m1, raised |-> TRUE]
        ELSE [m |-> cancel_server_scope(m1), raised |-> FALSE]

\* _reset_timeout: the object after the call, and whether the call raised
\* (AttributeError on the unset _timeout_scope)
_reset_timeout(m) ==
    LET m1 == [m EXCEPT !._deadline = now + idle_timeout]
    IN  IF m._timeout_scope = "unset"
        THEN [m |-> m1, raised |-> TRUE]
        ELSE [m |-> cancel_timeout_scope(m1), raised |-> FALSE]

\* mutant: stop only sets the exit flag
stop_flag_only(m) == [m |-> [m EXCEPT !._should_exit = TRUE], raised |-> FALSE]

\* stop: the object after the call, and whether the call raised
stop(m) ==
    LET m1 == [m EXCEPT !._should_exit = TRUE]
        m2 == [m1 EXCEPT !._server = "should_exit"]
        m3 == cancel_server_scope(m2)
    IN  IF m._server = "unset" THEN [m |-> m1, raised |-> TRUE]
        ELSE IF m._timeout_scope = "unset" THEN [m |-> m3, raised |-> TRUE]
        ELSE [m |-> cancel_timeout_scope(m3), raised |-> FALSE]

(***************************************************************************)
(* The CLI process (__main__.py, server.py): pc is idle (no process),      *)
(* preview or execute (the rename command awaits that response), returned  *)
(* or raised (the command has left app()), exited.  reqs are the           *)
(* capability requests it has issued, got the responses it has received,   *)
(* out its print() calls.                                                  *)
(***************************************************************************)
\* Python's None for --id
NoId == 0

RenameIds == 1..MaxRenameId

NoExc == [type |-> "None"]

RuntimeError(msg) == [type |-> "RuntimeError", msg |-> msg]

HTTPStatusError == [type |-> "HTTPStatusError", msg |-> "HTTPStatusError"]

\* typer.Exit(code)
Exit(code) == [type |-> "Exit", exit_code |-> code]

ExceptionGroup(excs) == [type |-> "ExceptionGroup", exceptions |-> excs]

IdleProc ==
    [pc |-> "idle", cmd |-> "none", debug |-> FALSE, execute |-> FALSE,
     rename_id |-> NoId, reqs |-> <<>>, got |-> <<>>, out |-> <<>>,
     exc |-> NoExc, uncaught |-> FALSE, code |-> 0]

Live == {s \in Slots : mc[s].pc # "free"}

LiveIn(objs) == {s \in Slots : objs[s].pc # "free"}

\* the slot a new object takes: the slot of its language when that is free,
\* the lowest free slot otherwise
Preferred(target) ==
    CHOOSE i \in 1..Len(lang_clients) : lang_clients[i] = target.client_cls

NewSlot(target) ==
    IF Preferred(target) \in Slots \ Live THEN Preferred(target)
    ELSE CHOOSE s \in Slots \ Live : \A u \in Slots \ Live : s <= u

Init ==
    /\ now = 0
    /\ clients = [id \in {} |-> 0]
    /\ mc = [s \in Slots |-> FreeClient]
    /\ files = {}
    /\ sinks = {}
    /\ mgr = "running"
    /\ cli = [c \in CLIs |->
                [pc |-> "probe", left |-> 0, peer |-> 0, cmd |-> IdleProc]]
    /\ broker = [c \in CLIs |-> "none"]
    /\ listener = 0
    /\ proc = IdleProc

(***************************************************************************)
(* The manager (manager/manager.py).  Its operations contain no await, so  *)
(* each runs in one step.  An operation is a function of the state to the  *)
(* table and objects after it, what it returned and what it raised.        *)
(***************************************************************************)
Result(cl, objs, ret, raised) ==
    [clients |-> cl, mc |-> objs, ret |-> ret, raised |-> raised, full |-> FALSE]

\* mutant: the id is computed from the requested path, not from the root
create_client_id_of_path(path) ==
    LET target == find_client(path)
        client_id == get_client_id([target EXCEPT !.project_path = path])
    IN  IF target = NoTarget
        THEN Result(clients, mc, NoPath, "NotFoundException")
        ELSE IF client_id \notin DOMAIN clients
        THEN IF Live = Slots
             THEN [Result(clients, mc, NoPath, "none") EXCEPT !.full = TRUE]
             ELSE LET m_client == ManagedClient(target)
                  IN  Result(clients @@ (client_id :> NewSlot(target)),
                             [mc EXCEPT ![NewSlot(target)] = m_client],
                             uds_path(m_client), "none")
        ELSE LET r == _reset_timeout(mc[clients[client_id]])
                 objs == [mc EXCEPT ![clients[client_id]] = r.m]
             IN  IF r.raised
                 THEN Result(clients, objs, NoPath, "AttributeError")
                 ELSE Result(clients, objs, uds_path(r.m), "none")

\* mutant: a target of None is not refused, and its use raises
create_client_no_check(path) ==
    LET target == find_client(path)
        client_id == get_client_id(target)
    IN  IF target = NoTarget
        THEN Result(clients, mc, NoPath, "AttributeError")
        ELSE IF client_id \notin DOMAIN clients
        THEN IF Live = Slots
             THEN [Result(clients, mc, NoPath, "none") EXCEPT !.full = TRUE]
             ELSE LET m_client == ManagedClient(target)
                  IN  Result(clients @@ (client_id :> NewSlot(target)),
                             [mc EXCEPT ![NewSlot(target)] = m_client],
                             uds_path(m_client), "none")
        ELSE LET r == _reset_timeout(mc[clients[client_id]])
                 objs == [mc EXCEPT ![clients[client_id]] = r.m]
             IN  IF r.raised
                 THEN Result(clients, objs, NoPath, "AttributeError")
                 ELSE Result(clients, objs, uds_path(r.m), "none")

\* mutant: the id is not looked up in the table before inserting
create_client_always_new(path) ==
    LET target == find_client(path)
        client_id == get_client_id(target)
        m_client == ManagedClient(target)
    IN  IF target = NoTarget
        THEN Result(clients, mc, NoPath, "NotFoundException")
        ELSE IF Live = Slots
        THEN [Result(clients, mc, NoPath, "none") EXCEPT !.full = TRUE]
        ELSE Result([k \in DOMAIN clients \cup {client_id} |->
                        IF k = client_id THEN NewSlot(target) ELSE clients[k]],
                    [mc EXCEPT ![NewSlot(target)] = m_client],
                    uds_path(m_client), "none")

create_client(path) ==
    LET target == find_client(path)
        client_id == get_client_id(target)
    IN  IF target = NoTarget
        THEN Result(clients, mc, NoPath, "NotFoundException")
        ELSE IF client_id \notin DOMAIN clients
        THEN IF Live = Slots
             THEN [Result(clients, mc, NoPath, "none") EXCEPT !.full = TRUE]
             ELSE LET m_client == ManagedClient(target)
                  IN  Result(clients @@ (client_id :> NewSlot(target)),
                             [mc EXCEPT ![NewSlot(target)] = m_client],
                             uds_path(m_client), "none")
        ELSE LET r == _reset_timeout(mc[clients[client_id]])
                 objs == [mc EXCEPT ![clients[client_id]] = r.m]
             IN  IF r.raised
                 THEN Result(clients, objs, NoPath, "AttributeError")
                 ELSE Result(clients, objs, uds_path(r.m), "none")

\* mutant: the table is indexed without looking the id up first
delete_client_on_unguarded(cl, objs, path) ==
    LET target == find_client(path)
        client_id == get_client_id(target)
    IN  IF target = NoTarget THEN Result(cl, objs, NoPath, "none")
        ELSE IF client_id \notin DOMAIN cl
        THEN Result(cl, objs, NoPath, "KeyError")
        ELSE LET r == stop(objs[cl[client_id]])
             IN  Result(cl, [objs EXCEPT ![cl[client_id]] = r.m], NoPath,
                        IF r.raised THEN "AttributeError" ELSE "none")

\* delete_client on table cl and objects objs
delete_client_on(cl, objs, path) ==
    LET target == find_client(path)
        client_id == get_client_id(target)
    IN  IF target # NoTarget /\ client_id \in DOMAIN cl
        THEN LET r == stop(objs[cl[client_id]])
             IN  Result(cl, [objs EXCEPT ![cl[client_id]] = r.m], NoPath,
                        IF r.raised THEN "AttributeError" ELSE "none")
        ELSE Result(cl, objs, NoPath, "none")

delete_client(path) == delete_client_on(clients, mc, path)

\* inspect_client on table cl and objects objs: the set holding the info,
\* empty for None
inspect_client(cl, objs, path) ==
    LET target == find_client(path)
        client_id == get_client_id(target)
    IN  IF target # NoTarget /\ client_id \in DOMAIN cl
        THEN {info(objs[cl[client_id]])}
        ELSE {}

list_clients == [id \in DOMAIN clients |-> info(mc[clients[id]])]

(***************************************************************************)
(* The broker's HTTP handlers (manager/cli.py): the state after the        *)
(* handler and the response it sends.                                      *)
(***************************************************************************)
StatusOf(raised, success) ==
    IF raised = "none" THEN success
    ELSE IF raised = "NotFoundException" THEN 404
    ELSE 500

\* mutant: the handler yields to the event loop between create_client and
\* inspect_client, and the run-tasks that are about to pop their id do so
create_client_handler_yields(path) ==
    LET r == create_client(path)
        left == {id \in DOMAIN r.clients : r.mc[r.clients[id]].pc # "unlinked"}
        cl == [id \in left |-> r.clients[id]]
        got == inspect_client(cl, r.mc, path)
        raised == IF r.raised = "none" /\ got = {} THEN "RuntimeError"
                  ELSE r.raised
    IN  [clients |-> cl, mc |-> r.mc, full |-> r.full,
         status |-> StatusOf(raised, 201),
         uds_path |-> IF raised = "none" THEN r.ret ELSE NoPath,
         info |-> IF raised = "none" THEN got ELSE {}]

create_client_handler(path) ==
    LET r == create_client(path)
        got == inspect_client(r.clients, r.mc, path)
        raised == IF r.raised = "none" /\ got = {} THEN "RuntimeError"
                  ELSE r.raised
    IN  [clients |-> r.clients, mc |-> r.mc, full |-> r.full,
         status |-> StatusOf(raised, 201),
         uds_path |-> IF raised = "none" THEN r.ret ELSE NoPath,
         info |-> IF raised = "none" THEN got ELSE {}]

delete_client_handler(path) ==
    LET got == inspect_client(clients, mc, path)
        r == delete_client(path)
    IN  [clients |-> r.clients, mc |-> r.mc,
         status |-> StatusOf(r.raised, 200),
         info |-> IF r.raised = "none" THEN got ELSE {}]

list_clients_handler == [status |-> 200, infos |-> list_clients]

\* POST /create; a ManagedClient built by it has registered its log sink
\* (__attrs_post_init__)
Create(path) ==
    LET r == create_client_handler(path)
    IN  /\ mgr = "running"
        /\ ~r.full
        /\ clients' = r.clients
        /\ mc' = r.mc
        /\ sinks' = sinks \cup {id_of(r.mc[s]) : s \in LiveIn(r.mc) \ Live}
        /\ UNCHANGED <<now, files, mgr, cli, broker, listener, proc>>

\* DELETE /delete
Delete(path) ==
    LET r == delete_client_handler(path)
    IN  /\ mgr = "running"
        /\ clients' = r.clients
        /\ mc' = r.mc
        /\ UNCHANGED <<now, files, sinks, mgr, cli, broker, listener, proc>>

\* GET /list
List ==
    /\ mgr = "running"
    /\ list_clients_handler.status = 200
    /\ UNCHANGED vars

(***************************************************************************)
(* The run-task of one managed client: Manager._run_client around          *)
(* ManagedClient.run and _serve (manager/client.py).                       *)
(***************************************************************************)
\* run(): the stale socket is unlinked, the LSP client's context is entered
RunStart(s) ==
    /\ mc[s].pc = "spawned"
    /\ mc' = [mc EXCEPT ![s].pc = "handshake"]
    /\ files' = files \ {uds_path(mc[s])}
    /\ UNCHANGED <<now, clients, sinks, mgr, cli, broker, listener, proc>>

\* the initialize handshake succeeded: _serve runs up to serve()'s first await
HandshakeOk(s) ==
    /\ mc[s].pc = "handshake"
    /\ mc' = [mc EXCEPT ![s].pc = "startup", ![s]._server = "running",
                        ![s]._server_scope = "open", ![s].wd = "scheduled"]
    /\ UNCHANGED <<now, clients, files, sinks, mgr, cli, broker, listener, proc>>

\* mutant: a run-task whose handshake failed is started again
HandshakeFail_restart(s) ==
    /\ mc[s].pc = "handshake"
    /\ mc' = [mc EXCEPT ![s].pc = "spawned", ![s].exc = TRUE]
    /\ UNCHANGED <<now, clients, files, sinks, mgr, cli, broker, listener, proc>>

\* the LSP client's __aenter__ raised: control goes to run()'s finally
HandshakeFail(s) ==
    /\ mc[s].pc = "handshake"
    /\ mc' = [mc EXCEPT ![s].pc = "finally", ![s].exc = TRUE]
    /\ UNCHANGED <<now, clients, files, sinks, mgr, cli, broker, listener, proc>>

\* mutant: the loop does not end on a deadline that has passed
_timeout_loop_no_expiry(m) ==
    IF m._should_exit \/ m._server = "should_exit"
    THEN cancel_server_scope([m EXCEPT !.wd = "done",
                                       !._server = "should_exit",
                                       !.until = 0,
                                       !._timeout_scope =
                                           IF @ = "unset" THEN @ ELSE "exited"])
    ELSE [m EXCEPT !.wd = "sleeping", !._timeout_scope = "open",
                   !.until = m._deadline]

\* mutant: a watchdog whose sleep has ended does not read the deadline again
_timeout_loop_no_reread(m) ==
    IF m._should_exit \/ m._server = "should_exit" \/ m._deadline - now <= 0
           \/ m.wd = "sleeping"
    THEN cancel_server_scope([m EXCEPT !.wd = "done",
                                       !._server = "should_exit",
                                       !.until = 0,
                                       !._timeout_scope =
                                           IF @ = "unset" THEN @ ELSE "exited"])
    ELSE [m EXCEPT !.wd = "sleeping", !._timeout_scope = "open",
                   !.until = m._deadline]

\* one turn of _timeout_loop, from where it was suspended to its next sleep
\* or to its end
_timeout_loop(m) ==
    IF m._should_exit \/ m._server = "should_exit" \/ m._deadline - now <= 0
    THEN cancel_server_scope([m EXCEPT !.wd = "done",
                                       !._server = "should_exit",
                                       !.until = 0,
                                       !._timeout_scope =
                                           IF @ = "unset" THEN @ ELSE "exited"])
    ELSE [m EXCEPT !.wd = "sleeping", !._timeout_scope = "open",
                   !.until = m._deadline]

WatchdogDue(m) ==
    \/ m.wd = "scheduled"
    \/ m.wd = "sleeping" /\ (m._timeout_scope = "cancelled" \/ now >= m.until)

Watchdog(s) ==
    /\ mc[s].pc \in {"startup", "serving", "join"}
    /\ WatchdogDue(mc[s])
    /\ mc' = [mc EXCEPT ![s] = _timeout_loop(mc[s])]
    /\ UNCHANGED <<now, clients, files, sinks, mgr, cli, broker, listener, proc>>

\* mutant: the server is bound while the LSP handshake is still running
ServerBind_before_handshake(s) ==
    /\ mc[s].pc \in {"handshake", "startup"}
    /\ mc[s].wd # "scheduled"
    /\ mc' = [mc EXCEPT ![s].pc = "serving"]
    /\ files' = files \cup {uds_path(mc[s])}
    /\ UNCHANGED <<now, clients, sinks, mgr, cli, broker, listener, proc>>

\* uvicorn binds the unix socket and starts serving; the watchdog, scheduled
\* before serve() first suspended, has run by then
ServerBind(s) ==
    /\ mc[s].pc = "startup"
    /\ mc[s].wd # "scheduled"
    /\ mc[s]._server_scope = "open"
    /\ mc' = [mc EXCEPT ![s].pc = "serving"]
    /\ files' = files \cup {uds_path(mc[s])}
    /\ UNCHANGED <<now, clients, sinks, mgr, cli, broker, listener, proc>>

\* serve() is cancelled through _server_scope, or returns on finding
\* should_exit set; the requests of the session are followed only while
\* serve() runs
ServeExit(s) ==
    /\ mc[s].pc \in {"startup", "serving"}
    /\ mc[s]._server_scope = "cancelled" \/ mc[s]._server = "should_exit"
    /\ mc' = [mc EXCEPT ![s].pc = "join", ![s].inflight = 0]
    /\ UNCHANGED <<now, clients, files, sinks, mgr, cli, broker, listener, proc>>

\* the task group of _serve ends once the watchdog has ended
Join(s) ==
    /\ mc[s].pc = "join"
    /\ mc[s].wd = "done"
    /\ mc' = [mc EXCEPT ![s].pc = "teardown"]
    /\ UNCHANGED <<now, clients, files, sinks, mgr, cli, broker, listener, proc>>

\* the LSP client's context is left
ClientExit(s) ==
    /\ mc[s].pc = "teardown"
    /\ mc' = [mc EXCEPT ![s].pc = "finally"]
    /\ UNCHANGED <<now, clients, files, sinks, mgr, cli, broker, listener, proc>>

\* run()'s finally: await uds_path.unlink(missing_ok=True)
Unlink(s) ==
    /\ mc[s].pc = "finally"
    /\ mc' = [mc EXCEPT ![s].pc = "unlinked"]
    /\ files' = files \ {uds_path(mc[s])}
    /\ UNCHANGED <<now, clients, sinks, mgr, cli, broker, listener, proc>>

\* mutant: the id is not removed
pop_nothing(cl, id) == cl

\* dict.pop(key, None)
pop(cl, id) == [k \in DOMAIN cl \ {id} |-> cl[k]]

\* mutant: the exception of a run-task reaches the manager's task group
Finish_propagates(s) ==
    /\ mc[s].pc = "unlinked"
    /\ clients' = pop(clients, id_of(mc[s]))
    /\ mc' = [mc EXCEPT ![s] = FreeClient]
    /\ sinks' = sinks \ {id_of(mc[s])}
    /\ mgr' = IF mc[s].exc THEN "closed" ELSE mgr
    /\ UNCHANGED <<now, files, cli, broker, listener, proc>>

\* mutant: _run_client does not pop the id
Finish_no_pop(s) ==
    /\ mc[s].pc = "unlinked"
    /\ mc' = [mc EXCEPT ![s] = FreeClient]
    /\ sinks' = sinks \ {id_of(mc[s])}
    /\ UNCHANGED <<now, clients, files, mgr, cli, broker, listener, proc>>

\* the rest of run()'s finally (the sink is removed, the scopes cancelled: an
\* unset scope raises) and _run_client's finally, which pops the id
Finish(s) ==
    /\ mc[s].pc = "unlinked"
    /\ clients' = pop(clients, id_of(mc[s]))
    /\ mc' = [mc EXCEPT ![s] = FreeClient]
    /\ sinks' = sinks \ {id_of(mc[s])}
    /\ UNCHANGED <<now, files, mgr, cli, broker, listener, proc>>

(***************************************************************************)
(* The HTTP surface of one managed client (_create_app).                   *)
(***************************************************************************)
Capabilities ==
    {"locate", "definition", "hover", "reference", "outline", "symbol",
     "search", "rename/preview", "rename/execute"}

\* what isinstance(client, <capability>Client) gives for the client classes
Supports(kind) ==
    IF kind = "python" THEN Capabilities
    ELSE Capabilities \ {"rename/preview", "rename/execute"}

\* a caller opens a connection on the session's socket path (the transport
\* of managed_client): it reaches the session only while uvicorn listens
connect(m) ==
    IF uds_path(m) \in files /\ m.pc = "serving" THEN "connected"
    ELSE "ConnectError"

\* mutant: the health route resets the idle deadline
health_resets(s) ==
    /\ mc[s].pc = "serving"
    /\ mc' = [mc EXCEPT ![s] = _reset_timeout(mc[s]).m]
    /\ UNCHANGED <<now, clients, files, sinks, mgr, cli, broker, listener, proc>>

\* GET /health
health(s) ==
    /\ mc[s].pc = "serving"
    /\ UNCHANGED vars

\* POST /shutdown
shutdown(s) ==
    /\ mc[s].pc = "serving"
    /\ mc' = [mc EXCEPT ![s] = stop(mc[s]).m]
    /\ UNCHANGED <<now, clients, files, sinks, mgr, cli, broker, listener, proc>>

\* mutant: handle_hover does not call _reset_timeout
handle_hover_no_reset(m, cap) ==
    LET r == IF cap = "hover" THEN [m |-> m, raised |-> FALSE]
             ELSE _reset_timeout(m)
    IN  IF r.raised THEN [m |-> r.m, raised |-> "AttributeError"]
        ELSE IF cap \notin Supports(m.target.client_cls)
        THEN [m |-> r.m, raised |-> "TypeError"]
        ELSE [m |-> [r.m EXCEPT !.inflight = @ + 1], raised |-> "none"]

\* handle_<capability>: the handler up to its await of the capability
handle(m, cap) ==
    LET r == _reset_timeout(m)
    IN  IF r.raised THEN [m |-> r.m, raised |-> "AttributeError"]
        ELSE IF cap \notin Supports(m.target.client_cls)
        THEN [m |-> r.m, raised |-> "TypeError"]
        ELSE [m |-> [r.m EXCEPT !.inflight = @ + 1], raised |-> "none"]

Handle(s, cap) ==
    /\ mc[s].pc = "serving"
    /\ mc[s].inflight < MaxInflight
    /\ mc' = [mc EXCEPT ![s] = handle(mc[s], cap).m]
    /\ UNCHANGED <<now, clients, files, sinks, mgr, cli, broker, listener, proc>>

\* the LSP server answers a waiting request
Respond(s) ==
    /\ mc[s].pc = "serving"
    /\ mc[s].inflight > 0
    /\ mc' = [mc EXCEPT ![s].inflight = @ - 1]
    /\ UNCHANGED <<now, clients, files, sinks, mgr, cli, broker, listener, proc>>

Tick ==
    /\ now < MaxTime
    /\ now' = now + 1
    /\ UNCHANGED <<clients, mc, files, sinks, mgr, cli, broker, listener, proc>>

Next ==
    \/ \E path \in Paths : Create(path)
    \/ \E path \in Paths : Delete(path)
    \/ List
    \/ \E s \in Slots : RunStart(s)
    \/ \E s \in Slots : HandshakeOk(s)
    \/ \E s \in Slots : HandshakeFail(s)
    \/ \E s \in Slots : Watchdog(s)
    \/ \E s \in Slots : ServerBind(s)
    \/ \E s \in Slots : ServeExit(s)
    \/ \E s \in Slots : Join(s)
    \/ \E s \in Slots : ClientExit(s)
    \/ \E s \in Slots : Unlink(s)
    \/ \E s \in Slots : Finish(s)
    \/ \E s \in Slots : health(s)
    \/ \E s \in Slots : shutdown(s)
    \/ \E s \in Slots, cap \in Capabilities : Handle(s, cap)
    \/ \E s \in Slots : Respond(s)
    \/ Tick

Spec == Init /\ [][Next]_vars

(***************************************************************************)
(* The end of Manager.run (manager/manager.py), driven by the lifespan of  *)
(* the broker's app (manager_lifespan).                                    *)
(***************************************************************************)
\* the body of `async with Manager().run()` is left without an exception:
\* the task group's __aexit__ starts waiting for the run-tasks it holds
ManagerExit ==
    /\ mgr = "running"
    /\ mgr' = "exiting"
    /\ UNCHANGED <<now, clients, mc, files, sinks, cli, broker, listener, proc>>

\* the run-tasks have all finished: __aexit__ returns, run()'s finally runs
ManagerClosed ==
    /\ mgr = "exiting"
    /\ Live = {}
    /\ mgr' = "closed"
    /\ UNCHANGED <<now, clients, mc, files, sinks, cli, broker, listener, proc>>

\* a run-task cancelled through the task group's scope: every await it makes
\* raises again, so run()'s finally stops at its first await, the unlink,
\* and does not reach logger.remove, unless that await was already done
PastUnlink == {s \in Live : mc[s].pc = "unlinked"}

\* the task that holds Manager.run is cancelled (or its body raises): the
\* task group cancels every run-task and waits for them; _run_client's
\* finally has no await and pops the id
ManagerCancel ==
    /\ mgr \in {"running", "exiting"}
    /\ mgr' = "closed"
    /\ clients' = [id \in DOMAIN clients \ {id_of(mc[s]) : s \in Live} |->
                      clients[id]]
    /\ mc' = [s \in Slots |-> FreeClient]
    /\ sinks' = sinks \ {id_of(mc[s]) : s \in PastUnlink}
    /\ UNCHANGED <<now, files, cli, broker, listener, proc>>

(***************************************************************************)
(* Broker bootstrap: connect_manager (manager/__init__.py) run by several  *)
(* CLI processes at once, the broker processes they spawn, and the first   *)
(* request each CLI sends through the client it got.                       *)
(***************************************************************************)
svars == <<now, clients, mc, files, sinks, mgr, proc>>

\* HTTPTransport(uds=..., retries=5)
retries == 5

\* is_socket_alive(MANAGER_UDS_PATH): a connect to the socket succeeds
is_socket_alive == listener # 0

\* mutant: connect_manager spawns a broker whatever the probe found
Probe_always_spawns(c) ==
    /\ cli[c].pc = "probe"
    /\ cli' = [cli EXCEPT ![c].pc = "spawn"]
    /\ UNCHANGED <<broker, listener>>
    /\ UNCHANGED svars

\* connect_manager: the liveness probe
Probe(c) ==
    /\ cli[c].pc = "probe"
    /\ cli' = [cli EXCEPT ![c] = IF is_socket_alive
                                  THEN [@ EXCEPT !.pc = "dial", !.left = retries]
                                  ELSE [@ EXCEPT !.pc = "spawn"]]
    /\ UNCHANGED <<broker, listener>>
    /\ UNCHANGED svars

\* connect_manager: subprocess.Popen of the broker, then the client is
\* returned
Popen(c) ==
    /\ cli[c].pc = "spawn"
    /\ broker' = [broker EXCEPT ![c] = "started"]
    /\ cli' = [cli EXCEPT ![c].pc = "dial", ![c].left = retries]
    /\ UNCHANGED listener
    /\ UNCHANGED svars

\* one connection attempt of the CLI's first request: the transport tries
\* again while it has retries left
Dial(c) ==
    /\ cli[c].pc = "dial"
    /\ cli' = [cli EXCEPT ![c] =
                  IF listener # 0
                  THEN [@ EXCEPT !.pc = "connected", !.peer = listener]
                  ELSE IF @.left > 0 THEN [@ EXCEPT !.left = @ - 1]
                  ELSE [@ EXCEPT !.pc = "failed"]]
    /\ UNCHANGED <<broker, listener>>
    /\ UNCHANGED svars

\* mutant: a starting broker takes the socket over from the one bound to it
BrokerBind_takes_over(b) ==
    /\ broker[b] = "started"
    /\ broker' = [broker EXCEPT ![b] = "bound"]
    /\ listener' = b
    /\ UNCHANGED cli
    /\ UNCHANGED svars

\* a spawned broker binds the well-known socket, or exits on finding it
\* bound (address in use)
BrokerBind(b) ==
    /\ broker[b] = "started"
    /\ broker' = [broker EXCEPT ![b] = IF listener = 0 THEN "bound" ELSE "exited"]
    /\ listener' = IF listener = 0 THEN b ELSE listener
    /\ UNCHANGED cli
    /\ UNCHANGED svars

BootNext ==
    \/ \E c \in CLIs : Probe(c)
    \/ \E c \in CLIs : Popen(c)
    \/ \E c \in CLIs : Dial(c)
    \/ \E b \in CLIs : BrokerBind(b)

BootSpec == Init /\ [][BootNext]_vars

LifeNext == Next \/ ManagerExit \/ ManagerClosed \/ ManagerCancel

LifeSpec == Init /\ [][LifeNext]_vars

(***************************************************************************)
(* serve() ending by itself.  While it runs, uvicorn.Server.serve holds    *)
(* the process's SIGINT and SIGTERM handlers; a signal sets should_exit,   *)
(* and serve() then returns normally, with no scope of _serve cancelled.   *)
(***************************************************************************)
handle_exit(s) ==
    /\ mc[s].pc \in {"startup", "serving"}
    /\ mc[s]._server = "running"
    /\ mc' = [mc EXCEPT ![s]._server = "should_exit"]
    /\ UNCHANGED <<now, clients, files, sinks, mgr, cli, broker, listener, proc>>

SigNext == Next \/ \E s \in Slots : handle_exit(s)

SigSpec == Init /\ [][SigNext]_vars

\* the event loop runs every task that is ready; the LSP handshake and the
\* LSP shutdown end
Fairness ==
    \A s \in Slots :
        /\ WF_vars(RunStart(s))
        /\ WF_vars(HandshakeOk(s) \/ HandshakeFail(s))
        /\ WF_vars(Watchdog(s))
        /\ WF_vars(ServeExit(s))
        /\ WF_vars(Join(s))
        /\ WF_vars(ClientExit(s))
        /\ WF_vars(Unlink(s))
        /\ WF_vars(Finish(s))

FairSpec == Spec /\ Fairness

(***************************************************************************)
(* The commands of the CLI (__main__.py, server.py) and run(), which       *)
(* reports what a command raised.  The broker is taken to be reachable.    *)
(***************************************************************************)
\* a path with no file behind it
Missing == <<4, 41>>

CmdPaths == Paths \cup {Missing}

\* Path.exists()
exists(path) == path \in Paths

\* what a capability call can raise: an exception, a group of exceptions, a
\* group holding a group
Leaves ==
    {[type |-> "ConnectError", msg |-> "ConnectError"],
     [type |-> "TimeoutError", msg |-> "TimeoutError"]}

FlatGroups ==
    {ExceptionGroup(excs) :
        excs \in UNION {[1..n -> Leaves] : n \in 1..MaxMembers}}

Failures ==
    Leaves \cup FlatGroups \cup {ExceptionGroup(<<g>>) : g \in FlatGroups}

NoResp == [type |-> "None"]

Raised(exc) == [type |-> "raised", exc |-> exc]

\* what `await cap(RenameRequest(root=preview_req))` can give
PreviewResponses ==
    {NoResp, [type |-> "RenameExecuteResponse"]}
        \cup {[type |-> "RenamePreviewResponse", rename_id |-> r] :
                 r \in RenameIds}
        \cup {Raised(exc) : exc \in Failures}

\* what `await cap(RenameRequest(root=execute_req))` can give
ExecuteResponses ==
    {NoResp, [type |-> "RenameExecuteResponse"]}
        \cup {Raised(exc) : exc \in Failures}

Line(tag, arg) == [tag |-> tag, arg |-> arg]

\* get_msg of __main__.py: the lines of the message, "\n".join over the
\* members of a group
RECURSIVE get_msg(_)
RECURSIVE join_msgs(_)
join_msgs(excs) ==
    IF excs = <<>> THEN <<>> ELSE get_msg(Head(excs)) \o join_msgs(Tail(excs))

get_msg(err) ==
    IF err.type = "ExceptionGroup" THEN join_msgs(err.exceptions)
    ELSE <<err.msg>>

raise(p, exc) == [p EXCEPT !.pc = "raised", !.exc = exc]

return(p) == [p EXCEPT !.pc = "returned"]

print(p, tag, arg) == [p EXCEPT !.out = Append(@, Line(tag, arg))]

PreviewRequest == [op |-> "preview", rename_id |-> NoId]

ExecuteRequest(rid) == [op |-> "execute", rename_id |-> rid]

\* the command suspends in `await cap(RenameRequest(root=req))`
request(p, req) == [p EXCEPT !.pc = req.op, !.reqs = Append(@, req)]

\* init_client before its request: find_client
init_client(p, path) ==
    IF find_client(path) = NoTarget
    THEN raise(p, RuntimeError("No LSP client for path"))
    ELSE p

\* init_client after POST /create was answered with status: raise_for_status
created(p, status) ==
    IF status = 201 THEN p ELSE raise(p, HTTPStatusError)

\* rename, from the isinstance check to its first request
rename_enter(p, client_cls) ==
    IF "rename/preview" \notin Supports(client_cls)
    THEN raise(p, RuntimeError("Client does not support rename"))
    ELSE IF p.rename_id = NoId
    THEN request(p, PreviewRequest)
    ELSE request(p, ExecuteRequest(p.rename_id))

\* mutant: the execute request carries the id 1
on_preview_fixed_id(p, resp) ==
    LET p1 == [p EXCEPT !.got = Append(@, resp)]
    IN  IF resp.type = "raised" THEN raise(p1, resp.exc)
        ELSE IF resp.type = "None"
        THEN return(print(p1, "Warning: No rename possibilities found", {}))
        ELSE IF resp.type # "RenamePreviewResponse"
        THEN raise(p1, RuntimeError("Unexpected response from rename preview"))
        ELSE IF ~p.execute
        THEN return(print(p1, "RenamePreviewResponse", {resp.rename_id}))
        ELSE request(p1, ExecuteRequest(1))

\* rename, from the preview's response to the execute request or the end
on_preview(p, resp) ==
    LET p1 == [p EXCEPT !.got = Append(@, resp)]
    IN  IF resp.type = "raised" THEN raise(p1, resp.exc)
        ELSE IF resp.type = "None"
        THEN return(print(p1, "Warning: No rename possibilities found", {}))
        ELSE IF resp.type # "RenamePreviewResponse"
        THEN raise(p1, RuntimeError("Unexpected response from rename preview"))
        ELSE IF ~p.execute
        THEN return(print(p1, "RenamePreviewResponse", {resp.rename_id}))
        ELSE request(p1, ExecuteRequest(resp.rename_id))

\* rename, from the execute request's response to the end
on_execute(p, resp) ==
    LET p1 == [p EXCEPT !.got = Append(@, resp)]
    IN  IF resp.type = "raised" THEN raise(p1, resp.exc)
        ELSE IF resp.type = "None"
        THEN raise(p1, RuntimeError("Failed to execute rename"))
        ELSE return(print(p1, "RenameExecuteResponse", {}))

\* the kinds printed after "Supported languages: "
supported_langs == {lang_clients[i] : i \in DOMAIN lang_clients}

\* start_server before its request: the checks of the path
start_server(p, path) ==
    IF ~exists(path)
    THEN raise(print(p, "Error: Path does not exist", {}), Exit(1))
    ELSE IF find_client(path) = NoTarget
    THEN raise(
             print(print(print(print(p,
                 "Error: Language not supported for path", {}),
                 "The CLI cannot analyze code files in this language.", {}),
                 "Supported languages", supported_langs),
                 "Please check", {}),
             Exit(1))
    ELSE p

\* start_server after POST /create was answered
started(p, status, resp_info) ==
    IF status = 201
    THEN return(print(print(p, "Success: Started server", {}),
                      "ManagedClientInfo", resp_info))
    ELSE raise(p, HTTPStatusError)

\* mutant: the exception is converted in debug mode too
run_converts_always(p) ==
    IF p.pc = "returned" THEN [p EXCEPT !.pc = "exited", !.code = 0]
    ELSE IF p.exc.type = "Exit"
    THEN [p EXCEPT !.pc = "exited", !.code = p.exc.exit_code]
    ELSE [print(p, "Error", get_msg(p.exc)) EXCEPT !.pc = "exited", !.code = 1]

\* run(): app() in click's standalone mode ends the process itself when the
\* command returns or raises typer.Exit; any other exception reaches the
\* except clause of run()
run(p) ==
    IF p.pc = "returned" THEN [p EXCEPT !.pc = "exited", !.code = 0]
    ELSE IF p.exc.type = "Exit"
    THEN [p EXCEPT !.pc = "exited", !.code = p.exc.exit_code]
    ELSE IF p.debug
    THEN [p EXCEPT !.pc = "exited", !.uncaught = TRUE, !.code = 1]
    ELSE [print(p, "Error", get_msg(p.exc)) EXCEPT !.pc = "exited", !.code = 1]

\* httpx.ConnectError, raised by the transport when its retries are used up
ConnectError == [type |-> "ConnectError", msg |-> "ConnectError"]

\* the commands a CLI process can run
Commands == {"locate", "rename", "start"}

\* locate_command when init_client raised exc: the except clause keeps the
\* message only under --check; with no response and no message the command
\* prints the parsed locate and returns (a ConnectError's message is one
\* line)
locate_command(p, check, exc) ==
    IF check THEN raise(p, RuntimeError(Head(get_msg(exc))))
    ELSE return(print(p, "Locate", <<>>))

\* the first request of a command whose connect failed: the ConnectError
\* leaves the `with get_manager_client()` block; locate_command catches
\* it, from the other commands it reaches run()
ConnectFailed(c, debug, cmd, check) ==
    /\ cli[c].pc = "failed"
    /\ cli' = [cli EXCEPT
                  ![c].pc = "exited",
                  ![c].cmd =
                      LET p == [IdleProc EXCEPT !.cmd = cmd, !.debug = debug]
                      IN  run(IF cmd = "locate"
                              THEN locate_command(p, check, ConnectError)
                              ELSE raise(p, ConnectError))]
    /\ UNCHANGED <<broker, listener>>
    /\ UNCHANGED svars

ConnectNext ==
    \/ BootNext
    \/ \E c \in CLIs, debug \in BOOLEAN, cmd \in Commands, check \in BOOLEAN :
           ConnectFailed(c, debug, cmd, check)

\* a CLI process is sequential code that runs to its end; nothing makes a
\* spawned broker come up
ConnectFairness ==
    \A c \in CLIs :
        /\ WF_vars(Probe(c))
        /\ WF_vars(Popen(c))
        /\ WF_vars(Dial(c))
        /\ WF_vars(\E debug \in BOOLEAN, cmd \in Commands, check \in BOOLEAN :
                       ConnectFailed(c, debug, cmd, check))

ConnectSpec == Init /\ [][ConnectNext]_vars /\ ConnectFairness

\* POST /create sent by a CLI process
post_create(path) ==
    LET r == create_client_handler(path)
    IN  /\ mgr = "running"
        /\ ~r.full
        /\ clients' = r.clients
        /\ mc' = r.mc
        /\ sinks' = sinks \cup {id_of(r.mc[s]) : s \in LiveIn(r.mc) \ Live}

\* a CLI process is started with the rename command
rename(debug, path, execute, rename_id) ==
    LET p == init_client([IdleProc EXCEPT !.cmd = "rename", !.debug = debug,
                                          !.execute = execute,
                                          !.rename_id = rename_id], path)
        c == created(p, create_client_handler(path).status)
    IN  /\ proc.pc = "idle"
        /\ IF p.pc = "raised"
           THEN proc' = p /\ UNCHANGED <<clients, mc, sinks>>
           ELSE /\ post_create(path)
                /\ proc' = IF c.pc = "raised" THEN c
                           ELSE rename_enter(c, find_client(path).client_cls)
        /\ UNCHANGED <<now, files, mgr, cli, broker, listener>>

rename_preview(resp) ==
    /\ proc.pc = "preview"
    /\ proc' = on_preview(proc, resp)
    /\ UNCHANGED <<now, clients, mc, files, sinks, mgr, cli, broker, listener>>

rename_execute(resp) ==
    /\ proc.pc = "execute"
    /\ proc' = on_execute(proc, resp)
    /\ UNCHANGED <<now, clients, mc, files, sinks, mgr, cli, broker, listener>>

\* a CLI process is started with `server start <path>`
StartServer(debug, path) ==
    LET p == start_server([IdleProc EXCEPT !.cmd = "start", !.debug = debug],
                          path)
        r == create_client_handler(path)
    IN  /\ proc.pc = "idle"
        /\ IF p.pc = "raised"
           THEN proc' = p /\ UNCHANGED <<clients, mc, sinks>>
           ELSE /\ post_create(path)
                /\ proc' = started(p, r.status, r.info)
        /\ UNCHANGED <<now, files, mgr, cli, broker, listener>>

Run ==
    /\ proc.pc \in {"returned", "raised"}
    /\ proc' = run(proc)
    /\ UNCHANGED <<now, clients, mc, files, sinks, mgr, cli, broker, listener>>

\* the process is gone; the next command runs in a new process
ProcessEnd ==
    /\ proc.pc = "exited"
    /\ proc' = IdleProc
    /\ UNCHANGED <<now, clients, mc, files, sinks, mgr, cli, broker, listener>>

CmdNext ==
    \/ \E debug, execute \in BOOLEAN : \E path \in Paths :
          \E rename_id \in {NoId} \cup RenameIds :
              rename(debug, path, execute, rename_id)
    \/ \E resp \in PreviewResponses : rename_preview(resp)
    \/ \E resp \in ExecuteResponses : rename_execute(resp)
    \/ \E debug \in BOOLEAN : \E path \in CmdPaths : StartServer(debug, path)
    \/ Run
    \/ ProcessEnd
    \/ \E s \in Slots : RunStart(s)
    \/ \E s \in Slots : HandshakeOk(s)
    \/ \E s \in Slots : Watchdog(s)
    \/ \E s \in Slots : ServerBind(s)

CmdSpec == Init /\ [][CmdNext]_vars

(***************************************************************************)
(* Properties.                                                             *)
(***************************************************************************)
Claimed == {path \in Paths : find_client(path) # NoTarget}

Ids == {get_client_id(find_client(path)) : path \in Claimed}

\* the fields of an object that _reset_timeout may change, blanked
Frame(m) == [m EXCEPT !._deadline = 0, !._timeout_scope = "unset", !.until = 0]

\* C1: creates for one target keep one session: a create whose id is absent
\* inserts one entry and one run-task; a create whose id is in the table
\* inserts nothing, spawns nothing and only resets that session's deadline;
\* no two live objects have the same id.
C1_CreateReuses ==
    /\ \A s, u \in Live : id_of(mc[s]) = id_of(mc[u]) => s = u
    /\ \A path \in Claimed :
          LET id == get_client_id(find_client(path))
              r == create_client(path)
          IN  IF id \in DOMAIN clients
              THEN /\ r.clients = clients
                   /\ LiveIn(r.mc) = Live
                   /\ \A s \in Slots \ {clients[id]} : r.mc[s] = mc[s]
                   /\ Frame(r.mc[clients[id]]) = Frame(mc[clients[id]])
                   /\ r.mc[clients[id]]._deadline = now + idle_timeout
              ELSE r.full \/
                   /\ DOMAIN r.clients = DOMAIN clients \cup {id}
                   /\ \A k \in DOMAIN clients : r.clients[k] = clients[k]
                   /\ LiveIn(r.mc) = Live \cup {r.clients[id]}
                   /\ r.clients[id] \notin Live
                   /\ r.mc[r.clients[id]].pc = "spawned"
                   /\ r.mc[r.clients[id]].target = find_client(path)
                   /\ \A s \in Live : r.mc[s] = mc[s]

\* a session still starting up whose watchdog sleep was interrupted by a
\* reset, which before the socket is bound only a second create can do
C1_Witness ==
    \E s \in Live :
        /\ mc[s].pc = "startup"
        /\ mc[s]._timeout_scope = "cancelled"
        /\ ~mc[s]._should_exit
        /\ mc[s]._deadline = now + idle_timeout
        /\ now > 0
        /\ DOMAIN clients = {id_of(mc[s])}

\* C2: a capability request that starts being served leaves the deadline at
\* least idle_timeout after the present time.
C2_HandlerResets ==
    [][\A s \in Slots :
          mc'[s].inflight > mc[s].inflight
              => mc'[s]._deadline >= now + idle_timeout]_vars

\* a request is waiting on the LSP, served after the clock has advanced, and
\* its reset has interrupted the watchdog's sleep
C2_Witness ==
    \E s \in Live :
        /\ mc[s].pc = "serving"
        /\ mc[s].inflight > 0
        /\ now > 0
        /\ mc[s]._deadline = now + idle_timeout
        /\ mc[s]._timeout_scope = "cancelled"

Expired(id) == id \in DOMAIN clients /\ mc[clients[id]]._deadline <= now

Gone(id) == id \notin DOMAIN clients /\ uds_path_of(id) \notin files

\* C3: a session whose deadline has passed leaves the table, and its socket
\* file is gone, unless its deadline is reset first; a watchdog that has
\* ended has cancelled the server scope.
C3_IdleExpires ==
    /\ \A id \in Ids :
          Expired(id) ~>
              (Gone(id) \/ (id \in DOMAIN clients
                               /\ mc[clients[id]]._deadline > now))
    /\ [](\A s \in Slots :
            mc[s].wd = "done" => /\ mc[s]._server_scope = "cancelled"
                                 /\ mc[s]._server = "should_exit")

\* a bound session that nobody stopped, whose watchdog ended on the deadline
\* and whose run-task has left serve()
C3_Witness ==
    \E s \in Live :
        /\ mc[s].pc = "join"
        /\ mc[s].wd = "done"
        /\ ~mc[s]._should_exit
        /\ mc[s]._deadline <= now
        /\ uds_path(mc[s]) \in files
        /\ id_of(mc[s]) \in DOMAIN clients

\* C4: the watchdog ends a session for idleness only when no capability
\* request of the session is waiting for its LSP result.
C4_NoExpiryInFlight ==
    [][\A s \in Slots :
          (/\ mc[s].wd # "done"
           /\ mc'[s].wd = "done"
           /\ ~mc[s]._should_exit
           /\ mc[s]._server # "should_exit") => mc[s].inflight = 0]_vars

\* C5: once stop() has been called on a session in the table, the session
\* leaves the table and its socket file is gone.
C5_StopTerminates ==
    \A id \in Ids :
        (id \in DOMAIN clients /\ mc[clients[id]]._should_exit) ~> Gone(id)

\* a stopped session whose run-task has unlinked the socket and is about to
\* pop the id
C5_Witness ==
    \E s \in Live :
        /\ mc[s]._should_exit
        /\ mc[s].pc = "unlinked"
        /\ uds_path(mc[s]) \notin files
        /\ id_of(mc[s]) \in DOMAIN clients

\* C6: a create whose id is in the table answers 201 with that session's
\* socket path and has reset its deadline, whatever the session's state.
C6_CreateOnExisting ==
    \A path \in Claimed :
        LET id == get_client_id(find_client(path))
            r == create_client_handler(path)
        IN  id \in DOMAIN clients
                => /\ r.status = 201
                   /\ r.uds_path = uds_path(mc[clients[id]])
                   /\ r.mc[clients[id]]._deadline = now + idle_timeout

\* C7: when a session becomes ready (handshake done, socket bound) its
\* deadline is at least idle_timeout after the present time.
C7_ReadyResetsDeadline ==
    [][\A s \in Slots :
          (mc[s].pc = "startup" /\ mc'[s].pc = "serving")
              => mc'[s]._deadline >= now + idle_timeout]_vars

\* C8: a successful create leaves, under the id of the path's target, a
\* session of that very target (its own root), also when another root of the
\* same language has the same digest.
C8_NoCollapse ==
    \A path \in Claimed :
        LET id == get_client_id(find_client(path))
            r == create_client(path)
        IN  (r.raised = "none" /\ ~r.full)
                => r.mc[r.clients[id]].target = find_client(path)

\* C9: paths that resolve to the same target are the same request to the
\* manager: create, delete and inspect give the same answer and the same
\* state for both, a session created through one is found through the other
\* under the same socket path, and every session sits under its own id.
C9_IdDeterministic ==
    /\ \A id \in DOMAIN clients :
          /\ clients[id] \in Live
          /\ id_of(mc[clients[id]]) = id
    /\ \A p, q \in Claimed :
          find_client(p) = find_client(q)
              => /\ create_client_handler(p) = create_client_handler(q)
                 /\ delete_client_handler(p) = delete_client_handler(q)
                 /\ inspect_client(clients, mc, p) = inspect_client(clients, mc, q)
                 /\ LET r == create_client_handler(p)
                    IN  r.status = 201
                            => /\ inspect_client(r.clients, r.mc, q) = r.info
                               /\ r.info # {}
                               /\ r.uds_path =
                                      uds_path_of(get_client_id(find_client(q)))

\* a bound session that two different paths resolve to
C9_Witness ==
    \E p, q \in Claimed :
        /\ p # q
        /\ find_client(p) = find_client(q)
        /\ get_client_id(find_client(p)) \in DOMAIN clients
        /\ mc[clients[get_client_id(find_client(p))]].pc = "serving"
        /\ mc[clients[get_client_id(find_client(p))]].target = find_client(q)
        /\ uds_path_of(get_client_id(find_client(q))) \in files

Unclaimed(path) ==
    \A i \in 1..Len(lang_clients) :
        find_project_root(lang_clients[i], path) = NoPath

\* C10: a create for a path no descriptor claims answers 404 and leaves the
\* table and every session as they were.
C10_CreateNotFound ==
    \A path \in Paths :
        Unclaimed(path)
            => LET r == create_client_handler(path)
               IN  /\ r.status = 404
                   /\ r.clients = clients
                   /\ r.mc = mc
                   /\ ~r.full

\* an unclaimed path while a session serves with a deadline that a reset
\* would move
C10_Witness ==
    /\ \E path \in Paths : Unclaimed(path)
    /\ \E s \in Live :
          /\ mc[s].pc = "serving"
          /\ mc[s].wd = "sleeping"
          /\ mc[s]._deadline < now + idle_timeout
          /\ id_of(mc[s]) \in DOMAIN clients

\* C11: a run-task that raised is not started again: it only finishes its
\* cleanup, and when it ends its id leaves the table; a create for a target
\* whose id is not in the table builds a fresh session with a new run-task.
C11_FailedRunRemoved ==
    /\ [][\A s \in Slots :
             mc[s].exc
                 => /\ mc'[s].pc \in {"finally", "unlinked", "free"}
                    /\ mc'[s].pc = "free"
                           => id_of(mc[s]) \notin DOMAIN clients']_vars
    /\ [](\A path \in Claimed :
             LET id == get_client_id(find_client(path))
                 r == create_client(path)
             IN  (id \notin DOMAIN clients /\ ~r.full)
                     => r.mc[r.clients[id]] = ManagedClient(find_client(path)))

\* a session whose handshake failed after the clock advanced: its run-task
\* has unlinked the socket and is about to pop the id
C11_Witness ==
    \E s \in Live :
        /\ mc[s].exc
        /\ mc[s].pc = "unlinked"
        /\ mc[s]._server = "unset"
        /\ now > 0
        /\ id_of(mc[s]) \in DOMAIN clients

\* C12: whenever a run-task finishes, on any exit path, the socket file of
\* its session is unlinked and its log sink is removed.
C12_CleanupOnEveryExit ==
    [][\A s \in Slots :
          (mc[s].pc # "free" /\ mc'[s].pc = "free")
              => /\ uds_path(mc[s]) \notin files'
                 /\ id_of(mc[s]) \notin sinks']_vars

\* a session that will end only when its idle deadline comes
AwaitsDeadline(m) ==
    /\ m.pc \in {"startup", "serving"}
    /\ m.wd = "sleeping"
    /\ m._deadline > now
    /\ ~m._should_exit
    /\ m._server = "running"
    /\ m._server_scope = "open"

\* C13: once the manager's run() scope is being left, every run-task has
\* been cancelled: no session is still serving until its idle deadline, and
\* when the exit is complete the table is empty.
C13_ExitCancelsRunTasks ==
    /\ mgr = "exiting" => \A s \in Live : ~AwaitsDeadline(mc[s])
    /\ mgr = "closed" => /\ DOMAIN clients = {}
                         /\ Live = {}

\* C14: a session's socket is bound, and a capability request waits for the
\* LSP client, only after the handshake has completed; a caller that
\* connects while the session is starting gets a connection error and does
\* not reach the session.
C14_ServesAfterHandshake ==
    \A s \in Live :
        /\ (uds_path(mc[s]) \in files \/ mc[s].inflight > 0)
               => /\ mc[s].pc \notin {"spawned", "handshake"}
                  /\ mc[s]._server # "unset"
        /\ mc[s].pc \in {"spawned", "handshake", "startup"}
               => /\ connect(mc[s]) = "ConnectError"
                  /\ mc[s].inflight = 0

\* one session has a request waiting on its LSP client while another session
\* is still in its handshake
C14_Witness ==
    \E s, u \in Live :
        /\ mc[s].pc = "serving"
        /\ mc[s].inflight > 0
        /\ connect(mc[s]) = "connected"
        /\ mc[u].pc = "handshake"
        /\ connect(mc[u]) = "ConnectError"

Stopping(m) == m._server = "should_exit" \/ m._server_scope = "cancelled"

C16_TableMatchesRunTasks ==
    /\ \A id \in DOMAIN clients :
          /\ clients[id] \in Live
          /\ {s \in Live : id_of(mc[s]) = id} = {clients[id]}
    /\ \A s \in Live :
          /\ id_of(mc[s]) \in DOMAIN clients
          /\ clients[id_of(mc[s])] = s

\* two sessions in the table, one whose run-task was just spawned and one
\* whose run-task is about to finish
C16_Witness ==
    \E s, u \in Live :
        /\ mc[s].pc = "spawned"
        /\ mc[u].pc = "unlinked"
        /\ Cardinality(DOMAIN clients) = 2
        /\ clients[id_of(mc[s])] = s
        /\ clients[id_of(mc[u])] = u

\* C17: no two sessions in the table have the same socket path.
C17_DistinctSocketPaths ==
    \A a, b \in DOMAIN clients :
        uds_path(mc[clients[a]]) = uds_path(mc[clients[b]]) => a = b

\* two sessions in the table, both bound, each on its own socket file
C17_Witness ==
    \E a, b \in DOMAIN clients :
        /\ a # b
        /\ mc[clients[a]].pc = "serving"
        /\ mc[clients[b]].pc = "serving"
        /\ uds_path(mc[clients[a]]) \in files
        /\ uds_path(mc[clients[b]]) \in files
        /\ Cardinality(files) = 2

\* C18: when DELETE /delete for a session in the table has answered 200, the
\* table that the next /list reads no longer holds the session.
C18_StopThenListOmits ==
    \A path \in Claimed :
        LET id == get_client_id(find_client(path))
            r == delete_client_handler(path)
        IN  (id \in DOMAIN clients /\ r.status = 200)
                => id \notin DOMAIN r.clients

\* C18 as amended: a session that DELETE /delete has stopped leaves what
\* /list returns once its run-task has finished, and an id that /list does
\* not return comes back only through a create for it.
C18_StopThenListEventuallyOmits ==
    /\ \A id \in Ids :
          (id \in DOMAIN list_clients /\ mc[clients[id]]._should_exit)
              ~> (id \notin DOMAIN list_clients)
    /\ [][\A id \in Ids :
             (id \notin DOMAIN list_clients /\ id \in DOMAIN list_clients')
                 => \E path \in Claimed :
                       /\ get_client_id(find_client(path)) = id
                       /\ Create(path)]_vars

\* DELETE /delete has answered 200 for a serving session and /list still
\* returns it: its run-task is shutting the LSP client down
C18_Witness ==
    \E s \in Live :
        /\ mc[s].pc = "teardown"
        /\ mc[s]._should_exit
        /\ mc[s]._timeout_scope \in {"cancelled", "exited"}
        /\ ~mc[s].exc
        /\ id_of(mc[s]) \in DOMAIN list_clients
        /\ list_clients[id_of(mc[s])].remaining_time > 0

\* C19: a delete for a path no descriptor claims, or whose target has no
\* session in the table, answers 200 and changes nothing; a second delete
\* for the same path leaves the table and the objects as the first left them.
C19_DeleteIdempotent ==
    \A path \in Paths :
        LET target == find_client(path)
            h == delete_client_handler(path)
            once == delete_client(path)
            twice == delete_client_on(once.clients, once.mc, path)
        IN  /\ (target = NoTarget \/ get_client_id(target) \notin DOMAIN clients)
                   => /\ h.status = 200
                      /\ h.info = {}
                      /\ h.clients = clients
                      /\ h.mc = mc
            /\ once.clients = clients
            /\ twice.clients = once.clients
            /\ twice.mc = once.mc
            /\ twice.raised = once.raised

\* a serving session that a delete would stop, with a request waiting, while
\* another target has no session
C19_Witness ==
    /\ \E s \in Live :
          /\ mc[s].pc = "serving"
          /\ ~mc[s]._should_exit
          /\ mc[s]._server = "running"
          /\ mc[s].inflight > 0
          /\ stop(mc[s]).m # mc[s]
    /\ \E path \in Claimed : get_client_id(find_client(path)) \notin DOMAIN clients

C21_UnsupportedIsClientFault ==
    \A s \in Live : \A cap \in Capabilities :
        (mc[s].pc = "serving" /\ cap \notin Supports(mc[s].target.client_cls))
            => LET r == handle(mc[s], cap)
               IN  /\ StatusOf(r.raised, 200) \in 400..499
                   /\ r.m.pc = "serving"
                   /\ r.m.inflight = mc[s].inflight
                   /\ ~Stopping(mc[s]) => ~Stopping(r.m)

\* the ids under which the table cl holds the object in slot s
EntriesOf(cl, s) == {id \in DOMAIN cl : cl[id] = s}

\* C23: sessions of distinct targets are independent: a create or a delete
\* for one target, or the idle expiry of one session, leaves every session of
\* another target as it was (same table entries, same object, deadline
\* included); /list returns exactly one info for each session in the table.
C23_Independent ==
    /\ [](\A path \in Claimed : \A s \in Live :
            mc[s].target # find_client(path)
                => LET c == create_client(path)
                       d == delete_client(path)
                   IN  /\ c.mc[s] = mc[s]
                       /\ EntriesOf(c.clients, s) = EntriesOf(clients, s)
                       /\ d.mc[s] = mc[s]
                       /\ EntriesOf(d.clients, s) = EntriesOf(clients, s))
    /\ [][\A s \in Slots : Watchdog(s) =>
            \A u \in Slots \ {s} :
                /\ mc'[u] = mc[u]
                /\ EntriesOf(clients', u) = EntriesOf(clients, u)]_vars
    /\ [](/\ DOMAIN list_clients_handler.infos = DOMAIN clients
          /\ \A id \in DOMAIN clients :
                list_clients_handler.infos[id] = info(mc[clients[id]])
          /\ \A id, jd \in DOMAIN clients : clients[id] = clients[jd] => id = jd)

\* the infos that /create, /delete and /list would answer with in this state
InfosReported ==
    UNION {create_client_handler(path).info : path \in Paths}
        \cup UNION {delete_client_handler(path).info : path \in Paths}
        \cup {list_clients_handler.infos[id] : id \in DOMAIN clients}

\* C25: every info reported for a session has remaining_time equal to
\* max(0, deadline - now), so it is never negative, also once the deadline
\* has passed, and never more than the idle timeout.
C25_RemainingTimeBounded ==
    /\ \A i \in InfosReported :
          0 <= i.remaining_time /\ i.remaining_time <= idle_timeout
    /\ \A id \in DOMAIN clients :
          LET m == mc[clients[id]]
          IN  /\ m._deadline <= now + idle_timeout
              /\ list_clients_handler.infos[id].remaining_time
                    = IF m._deadline - now > 0 THEN m._deadline - now ELSE 0

\* a session still in the table after its deadline has passed
C25_Witness ==
    \E id \in DOMAIN clients :
        /\ mc[clients[id]]._deadline < now
        /\ list_clients_handler.infos[id].remaining_time = 0

\* C29: no reset is lost between the watchdog waking and deciding.  A step
\* that moves a session's deadline sets it to now + idle_timeout and
\* interrupts the watchdog's sleep; the watchdog ends its loop for idleness
\* only in a step that finds the current deadline passed, so not before the
\* last reset time + idle_timeout; a woken watchdog that finds the deadline
\* ahead sleeps again, until that deadline.
C29_NoLostReset ==
    [][\A s \in Slots :
          /\ (mc[s].pc # "free" /\ mc'[s].pc # "free"
                  /\ mc'[s]._deadline # mc[s]._deadline)
                => /\ mc'[s]._deadline = now + idle_timeout
                   /\ mc[s]._timeout_scope = "open"
                         => mc'[s]._timeout_scope = "cancelled"
          /\ (Watchdog(s) /\ ~mc[s]._should_exit /\ mc[s]._server = "running")
                => IF mc[s]._deadline <= now
                   THEN mc'[s].wd = "done"
                   ELSE /\ mc'[s].wd = "sleeping"
                        /\ mc'[s].until = mc[s]._deadline
                        /\ ~Stopping(mc'[s])]_vars

\* a reset has reached a sleeping watchdog that has not yet run again
C29_Witness ==
    \E s \in Live :
        /\ mc[s].pc = "serving"
        /\ mc[s].wd = "sleeping"
        /\ mc[s]._timeout_scope = "cancelled"
        /\ ~mc[s]._should_exit
        /\ mc[s]._server = "running"
        /\ now >= 1
        /\ mc[s]._deadline = now + idle_timeout

\* C30: the watchdog ends with the server: no session in the table has a
\* run-task that has left serve() and waits for a watchdog that sleeps
\* towards the idle deadline.
C30_WatchdogEndsWithServer ==
    \A id \in DOMAIN clients :
        LET m == mc[clients[id]]
        IN  m.pc = "join"
                => ~(m.wd = "sleeping" /\ m._timeout_scope = "open"
                        /\ now < m.until)

\* the print() calls of p that name the supported languages
NamesLanguages(p) ==
    \E i \in DOMAIN p.out :
        p.out[i].tag = "Supported languages" /\ p.out[i].arg = supported_langs

\* C24: `server start <path>` for a path that does not exist, or that no
\* language claims, prints a message naming the supported languages, ends
\* with a non-zero exit code and creates no session.
C24_StartRejects ==
    [][\A debug \in BOOLEAN : \A path \in CmdPaths :
          (StartServer(debug, path)
              /\ (~exists(path) \/ find_client(path) = NoTarget))
            => /\ clients' = clients
               /\ mc' = mc
               /\ proc'.pc = "raised"
               /\ run(proc').code # 0
               /\ NamesLanguages(run(proc'))]_vars

\* C26: a rename command started without --execute only previews, whatever
\* its other options: it issues no execute request, and when the preview
\* gave a response it prints that preview with its rename id and ends.
C26_PreviewOnly ==
    (proc.cmd = "rename" /\ ~proc.execute)
        => /\ \A i \in DOMAIN proc.reqs : proc.reqs[i].op # "execute"
           /\ (proc.got # <<>> /\ proc.got[1].type = "RenamePreviewResponse")
                 => /\ proc.pc \in {"returned", "exited"}
                    /\ proc.out = <<Line("RenamePreviewResponse",
                                         {proc.got[1].rename_id})>>

\* C27: a rename command started with --execute and no --id requests the
\* preview first; when the preview answers with a rename id it then issues
\* exactly one execute request, carrying that id; when the preview answers
\* nothing it issues no execute request and ends.
C27_ExecuteAfterPreview ==
    (proc.cmd = "rename" /\ proc.execute /\ proc.rename_id = NoId)
        => /\ Len(proc.reqs) <= 2
           /\ proc.reqs # <<>> => proc.reqs[1] = PreviewRequest
           /\ Len(proc.reqs) = 2
                 => /\ proc.got # <<>>
                    /\ proc.got[1].type = "RenamePreviewResponse"
                    /\ proc.reqs[2] = ExecuteRequest(proc.got[1].rename_id)
           /\ (proc.got # <<>> /\ proc.got[1].type = "RenamePreviewResponse")
                 => Len(proc.reqs) = 2
           /\ (proc.got # <<>> /\ proc.got[1].type = "None")
                 => /\ Len(proc.reqs) = 1
                    /\ proc.pc \in {"returned", "exited"}

\* the preview returned the id 2 and the rename was executed with it
C27_Witness ==
    /\ proc.cmd = "rename" /\ proc.execute /\ proc.rename_id = NoId
    /\ proc.pc = "exited" /\ proc.code = 0
    /\ Len(proc.reqs) = 2
    /\ proc.reqs[2] = ExecuteRequest(2)
    /\ proc.got[1].rename_id = 2

\* the print() calls of p that report an error of run()
ErrorLines(p) == {i \in DOMAIN p.out : p.out[i].tag = "Error"}

\* C28: an exception that a command raises (other than typer.Exit, the
\* framework's request to end) is, outside debug mode, reported by one
\* "Error: <message>" output, the last one, and the process ends with code
\* 1; in debug mode nothing is printed for it and the exception leaves run().
C28_ErrorsReported ==
    /\ (proc.pc = "raised" /\ proc.exc.type # "Exit")
          => LET x == run(proc)
             IN  /\ x.pc = "exited"
                 /\ x.exc = proc.exc
                 /\ IF proc.debug
                    THEN x.uncaught /\ x.out = proc.out
                    ELSE /\ ~x.uncaught
                         /\ x.code = 1
                         /\ Len(x.out) = Len(proc.out) + 1
                         /\ SubSeq(x.out, 1, Len(proc.out)) = proc.out
                         /\ x.out[Len(x.out)].tag = "Error"
                         /\ x.out[Len(x.out)].arg # <<>>
                         /\ proc.exc.type # "ExceptionGroup"
                               => x.out[Len(x.out)].arg = <<proc.exc.msg>>
    /\ (proc.pc = "exited" /\ proc.exc.type \notin {"None", "Exit"})
          => IF proc.debug
             THEN proc.uncaught /\ ErrorLines(proc) = {}
             ELSE /\ ~proc.uncaught
                  /\ proc.code = 1
                  /\ ErrorLines(proc) = {Len(proc.out)}

\* outside debug mode a group of two exceptions was reported and the process
\* ended with code 1
C28_Witness ==
    /\ proc.pc = "exited" /\ ~proc.debug /\ proc.code = 1
    /\ proc.exc.type = "ExceptionGroup"
    /\ Len(proc.exc.exceptions) = 2
    /\ proc.out # <<>>
    /\ proc.out[Len(proc.out)] = Line("Error", get_msg(proc.exc))
    /\ Len(get_msg(proc.exc)) = 2

\* C31: a delete for a session that is in the table is answered 200,
\* whatever the state of the session: starting, serving or already stopping.
C31_DeleteInEveryState ==
    \A path \in Claimed :
        get_client_id(find_client(path)) \in DOMAIN clients
            => delete_client_handler(path).status = 200

\* C32: a create that answers 201 returns the socket path of a session that
\* has not been asked to stop: neither stop() nor the idle expiry has fired
\* for it, and its run-task has not left serve().
C32_CreateReturnsLiveSession ==
    \A path \in Claimed :
        LET id == get_client_id(find_client(path))
            r == create_client_handler(path)
        IN  (r.status = 201 /\ ~r.full)
                => LET m == r.mc[r.clients[id]]
                   IN  /\ r.uds_path = uds_path(m)
                       /\ ~m._should_exit
                       /\ ~Stopping(m)
                       /\ m.pc \in {"spawned", "handshake", "startup", "serving"}

\* C33: the exception of one session's run-task stays with that session: a
\* step in which a failed session's object changes leaves the manager's task
\* group running and every other session as it was (object, table entries,
\* socket file), and while a failed session is around the broker still
\* answers /list and creates sessions for ids that are not in the table.
C33_FailureIsolated ==
    /\ [][\A s \in Slots :
             (mc[s].exc /\ mc'[s] # mc[s])
                 => /\ mgr' = "running"
                    /\ \A u \in Live \ {s} :
                          /\ mc'[u] = mc[u]
                          /\ EntriesOf(clients', u) = EntriesOf(clients, u)
                          /\ uds_path(mc[u]) \in files'
                                <=> uds_path(mc[u]) \in files]_vars
    /\ []((\E s \in Slots : mc[s].exc)
             => /\ mgr = "running"
                /\ list_clients_handler.status = 200
                /\ \A path \in Claimed :
                      LET r == create_client_handler(path)
                      IN  (get_client_id(find_client(path)) \notin DOMAIN clients
                              /\ ~r.full) => r.status = 201)

\* a run-task that raised is ending while another session serves on its
\* socket
C33_Witness ==
    \E s, u \in Live :
        /\ mc[s].exc /\ mc[s].pc = "unlinked"
        /\ mc[u].pc = "serving" /\ ~mc[u].exc
        /\ uds_path(mc[u]) \in files
        /\ id_of(mc[u]) \in DOMAIN clients

\* C34: the entry a finishing run-task removes is its own: an id leaves the
\* table only in the step that frees the object stored under it, an id is
\* inserted only when absent, for a newly built object, and an entry that
\* stays keeps the object it had.
C34_PopsOwnEntry ==
    [][/\ \A id \in DOMAIN clients \ DOMAIN clients' :
             /\ mc[clients[id]].pc = "unlinked"
             /\ id_of(mc[clients[id]]) = id
             /\ mc'[clients[id]].pc = "free"
       /\ \A id \in DOMAIN clients' \ DOMAIN clients :
             /\ mc[clients'[id]].pc = "free"
             /\ mc'[clients'[id]].pc = "spawned"
             /\ id_of(mc'[clients'[id]]) = id
       /\ \A id \in DOMAIN clients' \cap DOMAIN clients :
             /\ clients'[id] = clients[id]
             /\ mc'[clients[id]].target = mc[clients[id]].target
       /\ \A s \in Slots :
             (mc[s].pc = "unlinked" /\ mc'[s].pc = "free")
                 => /\ id_of(mc[s]) \in DOMAIN clients
                    /\ clients[id_of(mc[s])] = s
                    /\ id_of(mc[s]) \notin DOMAIN clients']_vars

\* a stopped session about to remove its entry while its deadline, reset by
\* a create that found the id in the table, is still ahead
C34_Witness ==
    \E s \in Live :
        /\ mc[s].pc = "unlinked"
        /\ mc[s]._should_exit
        /\ now >= 1
        /\ mc[s]._deadline = now + idle_timeout
        /\ id_of(mc[s]) \in DOMAIN clients
        /\ clients[id_of(mc[s])] = s

\* C35: GET /health changes nothing of a session (deadline, exit flags,
\* table entry); the deadline of a session moves only in a capability
\* request to it or in a create that finds its id in the table, so a session
\* that is only polled for health still meets its deadline.
C35_HealthIsFrame ==
    [][\A s \in Slots :
          /\ health(s) => /\ mc'[s] = mc[s]
                          /\ clients' = clients
          /\ (mc[s].pc # "free" /\ mc'[s].pc # "free"
                  /\ mc'[s]._deadline # mc[s]._deadline)
                => \/ \E cap \in Capabilities : Handle(s, cap)
                   \/ \E path \in Claimed :
                         /\ Create(path)
                         /\ get_client_id(find_client(path)) = id_of(mc[s])]_vars

\* a serving session whose deadline has come while its watchdog sleeps: a
\* health request is answered and does not move the deadline
C35_Witness ==
    \E s \in Live :
        /\ mc[s].pc = "serving"
        /\ mc[s].wd = "sleeping"
        /\ mc[s]._deadline <= now
        /\ ~Stopping(mc[s])

\* C36: connect_manager spawns a broker exactly when its probe of the
\* well-known socket fails, and at most once: after a failed probe its next
\* step is the one Popen of the invocation; after a successful probe it
\* spawns nothing and its client connects to the broker that is bound.
C36_SpawnsIffProbeFails ==
    /\ [][\A c \in CLIs :
             /\ (cli[c].pc = "probe" /\ cli'[c] # cli[c])
                   => /\ broker'[c] = "none"
                      /\ cli'[c].pc = IF listener # 0 THEN "dial" ELSE "spawn"
             /\ (cli[c].pc = "spawn" /\ cli'[c] # cli[c])
                   => /\ broker[c] = "none"
                      /\ broker'[c] = "started"
                      /\ cli'[c].pc = "dial"
             /\ (broker[c] = "none" /\ broker'[c] # "none")
                   => cli[c].pc = "spawn"
             /\ broker[c] # "none" => broker'[c] \in {broker[c], "bound", "exited"}
             /\ (cli[c].pc = "dial" /\ broker[c] = "none" /\ cli'[c] # cli[c])
                   => /\ listener # 0
                      /\ cli'[c].pc = "connected"
                      /\ cli'[c].peer = listener
                      /\ broker'[c] = "none"]_vars
    /\ [](\A c \in CLIs :
             /\ cli[c].pc \in {"probe", "spawn"} => broker[c] = "none"
             /\ (cli[c].pc \in {"dial", "connected"} /\ broker[c] = "none")
                   => listener # 0)

\* a CLI whose probe succeeded: it has spawned nothing and is connected to
\* the broker another CLI spawned
C36_Witness ==
    \E c, d \in CLIs :
        /\ c # d
        /\ cli[c].pc = "connected"
        /\ broker[c] = "none"
        /\ broker[d] = "bound"
        /\ cli[c].peer = d

\* C37: a CLI whose broker never becomes reachable does not retry for ever:
\* each failed connect uses up one of the transport's retries, the connect
\* fails when none is left, and the command then ends with exit code 1 and
\* an error shown to the user (one "Error: ..." output, or the uncaught
\* exception in debug mode).
C37_ConnectGivesUp ==
    /\ \A c \in CLIs :
           <>(listener # 0 \/ (cli[c].pc = "exited" /\ cli[c].cmd.code = 1))
    /\ [][\A c \in CLIs :
             (cli[c].pc = "dial" /\ cli'[c] # cli[c] /\ listener = 0)
                 => IF cli[c].left > 0
                    THEN cli'[c] = [cli[c] EXCEPT !.left = @ - 1]
                    ELSE cli'[c].pc = "failed"]_vars
    /\ [](\A c \in CLIs :
             /\ cli[c].left \in 0..retries
             /\ cli[c].pc = "exited"
                   => /\ cli[c].cmd.code = 1
                      /\ cli[c].cmd.uncaught
                             \/ \E l \in 1..Len(cli[c].cmd.out) :
                                    cli[c].cmd.out[l].tag = "Error")


\* C38: find_client(path) is the (project root, client class) of the first
\* descriptor of the registry, in its order, whose find_project_root gives a
\* root for the path, and is None (nothing raised) when no descriptor gives
\* one; every session in the table was made for such a result.
C38_FirstDescriptorWins ==
    /\ \A path \in CmdPaths :
           LET claiming == {i \in 1..Len(lang_clients) :
                               find_project_root(lang_clients[i], path) # NoPath}
           IN  IF claiming = {} THEN find_client(path) = NoTarget
               ELSE LET i == CHOOSE j \in claiming : \A k \in claiming : j <= k
                    IN  find_client(path) =
                            [project_path |->
                                 find_project_root(lang_clients[i], path),
                             client_cls |-> lang_clients[i]]
    /\ \A s \in Live :
           \E path \in Paths, i \in 1..Len(lang_clients) :
               /\ mc[s].target.client_cls = lang_clients[i]
               /\ mc[s].target.project_path
                      = find_project_root(lang_clients[i], path)
               /\ mc[s].target.project_path # NoPath
               /\ \A k \in 1..(i - 1) :
                      find_project_root(lang_clients[k], path) = NoPath

\* a session serving the target of a path that two descriptors claim, made
\* for the first of them, while some path is claimed by no descriptor
C38_Witness ==
    \E path \in Paths, s \in Slots :
        /\ Cardinality({i \in 1..Len(lang_clients) :
                           find_project_root(lang_clients[i], path) # NoPath}) >= 2
        /\ mc[s].pc = "serving"
        /\ mc[s].target = find_client(path)
        /\ mc[s].target.client_cls = lang_clients[1]
        /\ \E q \in Paths : find_client(q) = NoTarget

\* C39: nothing runs between create_client and inspect_client in the /create
\* handler: whenever create_client succeeds, the session it inserted or
\* reused is in the table the handler inspects, the handler answers 201 with
\* that session's info and never fails with "Failed to create client"; this
\* holds also while a run-task is ready to pop that very id.
C39_InspectFindsCreated ==
    \A path \in Paths :
        LET r == create_client(path)
            h == create_client_handler(path)
            id == get_client_id(find_client(path))
        IN  (r.raised = "none" /\ ~r.full)
                => /\ h.status = 201
                   /\ id \in DOMAIN h.clients
                   /\ h.clients = r.clients
                   /\ h.info = {info(r.mc[r.clients[id]])}
                   /\ h.uds_path = r.ret

\* a session just inserted by /create and found by inspect_client, while the
\* run-task of another session is ready to pop its id, and a session whose
\* run-task is ready to pop while a create for it would reuse it
C39_Witness ==
    \E s, u \in Slots, path, q \in Paths :
        /\ s # u
        /\ mc[s].pc = "spawned"
        /\ mc[s].target = find_client(path)
        /\ inspect_client(clients, mc, path) = {info(mc[s])}
        /\ mc[u].pc = "unlinked"
        /\ mc[u].target = find_client(q)
        /\ create_client(q).raised = "none"
        /\ create_client_handler(q).status = 201
=============================================================================
